---- MODULE Spec2Model ----
(***************************************************************************)
(* Model of one call session of the VoxEngine scenarios                    *)
(* (voximplant/scenarios/registration_recovery.js and the dormant          *)
(* reactivation scenario): the CallAlerting handler, the ToolCall,         *)
(* Disconnected and Failed listeners it registers, the catch block and     *)
(* sendWebhook.  Every `await` of the source is a suspension point: the    *)
(* part of a handler between two awaits is one action.                     *)
(***************************************************************************)
EXTENDS Integers, Sequences, FiniteSets, TLC

\* ---------------------------------------------------------------- bounds
\* number of ToolCall events the AI engine raises during one session
MaxToolCalls == 2

\* ------------------------------------------------------------- constants
CallId == "c1"
Undefined == "undefined"
Signals == {"Disconnected", "Failed"}
ToolNames == {"save_call_result", "other"}
\* results of Net.httpRequestAsync: resolved 2xx, resolved non-2xx, rejected
Outcomes == {"ok", "non2xx", "neterror"}

\* TOOLS: the save_call_result declaration of the registration-recovery
\* scenario (disposition enum, cx_score minimum and maximum)
Dispositions == {"COMPLETED_REGISTRATION", "SCHEDULED_COMPLETION", "NEEDS_HELP",
                 "NOT_INTERESTED", "WRONG_NUMBER"}
MinCxScore == 1
MaxCxScore == 10

\* functionCall.parameters as the AI engine may send them: one payload that
\* follows the declaration, one with a cx_score above the maximum and one
\* with a disposition of the other campaign
ValidPayload == [disposition |-> "COMPLETED_REGISTRATION", cx_score |-> 9]
Payloads == {ValidPayload,
             [disposition |-> "COMPLETED_REGISTRATION", cx_score |-> 11],
             [disposition |-> "REACTIVATED", cx_score |-> 9]}

VARIABLES
    mainPc,        \* position of the CallAlerting handler
    callLeg,       \* "alerting" | "connected" | "closed"
    callData,      \* callData.call_id: Undefined until the context is parsed
    geminiClient,  \* "null" | "open" | "closed"
    listeners,     \* TRUE once ToolCall/Disconnected/Failed listeners are registered
    error,         \* the exception caught by the catch block, "none" if none
    raised,        \* per signal: "no", or the handler position when it was raised
    pending,       \* raised signals not yet dispatched to the scenario
    lost,          \* signals dispatched while no listener was registered
    sigPc,         \* position of the Disconnected / Failed listener
    toolPc,        \* one entry per ToolCall event: position of its listener run
    timers,        \* pending setTimeout(hangup, 4000) timers
    toolResponses, \* number of geminiClient.sendToolResponse calls
    hangupCalls,   \* number of call.hangup() calls
    emitted,       \* events handed to sendWebhook, in order
    posts,         \* HTTP POST attempts made by sendWebhook
    received,      \* event types in the order the backend received them
    webhookLog,    \* outcomes sendWebhook has logged so far
    terminated,    \* VoxEngine.terminate() has been called
    aiPayloads,    \* the functionCall.parameters the AI engine may send
    toolAcks       \* tool responses sent, each with the outcome of its POST

VARIABLES
    mounted,             \* the useWebSocket effect has run
    isCleanedUp,         \* the effect's cleanup has run (the component is unmounted)
    sockets,             \* readyState of every WebSocket created by connect();
                         \* wsRef.current is the last one
    reconnectTimers,     \* pending setTimeout(connect, 3000) timers, by socket
    reconnectTimeoutRef, \* reconnectTimeoutRef.current (0 for null)
    isConnected,         \* useState isConnected
    lastMessage,         \* useState lastMessage
    activeCalls,         \* useState activeCalls (App)
    recentResults,       \* useState recentResults (App)
    clock,               \* number of new Date() timestamps taken so far
    published,           \* events the backend has broadcast
    wire,                \* frames in flight on the open connection
    relayed              \* number of received webhook events passed on

VARIABLES
    hookGuarded    \* TRUE: the hook with the isCleanedUp flag (hooks/useWebSocket.js);
                   \* FALSE: the copy of the hook without it

VARIABLES
    pingInterval,  \* the setInterval of the ping effect is active
    pings          \* number of {type: "ping"} frames sent

VARIABLES
    registry,      \* active-call registry of the backend, one entry per call
    sessions,      \* stored CallSession status, per call_id
    results,       \* stored CallResult, per call_id
    ingested,      \* webhook events the ingest has been handed, in order
    broadcasts     \* number of events republished to the broadcast channel

runtimeVars == <<mainPc, callLeg, callData, geminiClient, listeners, error, raised,
                 pending, lost, sigPc, toolPc, timers, toolResponses, hangupCalls,
                 emitted, posts, received, webhookLog, terminated, aiPayloads,
                 toolAcks>>

dashVars == <<mounted, isCleanedUp, sockets, reconnectTimers, reconnectTimeoutRef,
              isConnected, lastMessage, activeCalls, recentResults, clock,
              published, wire, relayed>>

pingVars == <<pingInterval, pings>>

ingestVars == <<registry, sessions, results, ingested, broadcasts>>

vars == <<runtimeVars, dashVars, pingVars, ingestVars, hookGuarded>>

\* ------------------------------------------------------------ sendWebhook
\* sendWebhook(data): one Net.httpRequestAsync POST per call
Event(type) == [type |-> type, call_id |-> callData]

Post(type, owner, k) == [type |-> type, owner |-> owner, k |-> k, status |-> "inflight"]

\* a sendWebhook that leaves call_id out of the envelope
sendWebhook_NoCallId(type, cid, owner, k) ==
    /\ emitted' = Append(emitted, [type |-> type, call_id |-> Undefined])
    /\ posts' = Append(posts, Post(type, owner, k))

sendWebhook(type, cid, owner, k) ==
    /\ emitted' = Append(emitted, [type |-> type, call_id |-> cid])
    /\ posts' = Append(posts, Post(type, owner, k))

\* sendWebhook({type: "call_result", ..., disposition, cx_score, summary})
sendResultWebhook(cid, params, k) ==
    /\ emitted' = Append(emitted, [type |-> "call_result", call_id |-> cid,
                                    disposition |-> params.disposition,
                                    cx_score |-> params.cx_score])
    /\ posts' = Append(posts, Post("call_result", "tool", k))

\* sendWebhook without its try/catch: a failed delivery reaches the caller
sendWebhookResult_Rethrow(outcome) ==
    IF outcome = "ok" THEN "returned" ELSE "thrown"

\* what the awaiting caller of sendWebhook sees once the POST has settled:
\* the try/catch of sendWebhook swallows a rejected request, and a non-2xx
\* response is an ordinary resolved value
sendWebhookResult(outcome) == "returned"

PostOf(owner, k) ==
    CHOOSE i \in 1..Len(posts) : posts[i].owner = owner /\ posts[i].k = k

\* a POST settles: the backend received the request and answered it with a
\* 2xx or a non-2xx status, or the request was rejected without reaching it
InFlight(i) == posts[i].status = "inflight"

Settled(i) == [posts EXCEPT ![i].status = "settled"]

Delivered(i, outcome) ==
    IF outcome = "neterror" THEN received ELSE Append(received, posts[i].type)

\* Logger.write("Webhook sent") for a resolved request, "Failed to send
\* webhook" for a rejected one
Logged(outcome) == webhookLog \cup {outcome}

\* useState(null): no message handled yet
NoMessage == [type |-> "none", call_id |-> "none"]

\* ------------------------------------------------------------------ Init
RuntimeInit ==
    /\ mainPc = "Alerting"
    /\ callLeg = "alerting"
    /\ callData = Undefined
    /\ geminiClient = "null"
    /\ listeners = FALSE
    /\ error = "none"
    /\ raised = [s \in Signals |-> "no"]
    /\ pending = {}
    /\ lost = {}
    /\ sigPc = [s \in Signals |-> "idle"]
    /\ toolPc = <<>>
    /\ timers = 0
    /\ toolResponses = 0
    /\ hangupCalls = 0
    /\ emitted = <<>>
    /\ posts = <<>>
    /\ received = <<>>
    /\ webhookLog = {}
    /\ terminated = FALSE
    /\ toolAcks = {}

DashInit ==
    /\ mounted = FALSE
    /\ isCleanedUp = FALSE
    /\ sockets = <<>>
    /\ reconnectTimers = {}
    /\ reconnectTimeoutRef = 0
    /\ isConnected = FALSE
    /\ lastMessage = NoMessage
    /\ activeCalls = <<>>
    /\ recentResults = <<>>
    /\ clock = 0
    /\ published = <<>>
    /\ wire = <<>>
    /\ relayed = 0

\* no CallResult stored for the session
NoResult == [disposition |-> "none", cx_score |-> 0]

\* the value of the isCleanedUp flag where the handlers test it: the copy of
\* the hook without the flag never returns early
Flag == hookGuarded /\ isCleanedUp

PingInit ==
    /\ pingInterval = FALSE
    /\ pings = 0

IngestInit ==
    /\ registry = <<>>
    /\ sessions = [c \in {"c1", "c2"} |-> "absent"]
    /\ results = [c \in {"c1", "c2"} |-> NoResult]
    /\ ingested = <<>>
    /\ broadcasts = 0

Init ==
    /\ RuntimeInit
    /\ DashInit
    /\ PingInit
    /\ IngestInit
    /\ hookGuarded = TRUE
    /\ aiPayloads = {ValidPayload}

\* either copy of the hook
HooksInit ==
    /\ RuntimeInit
    /\ DashInit
    /\ PingInit
    /\ IngestInit
    /\ hookGuarded \in BOOLEAN
    /\ aiPayloads = {ValidPayload}

\* the AI engine may also send payloads that break the declaration
PayloadInit ==
    /\ RuntimeInit
    /\ DashInit
    /\ PingInit
    /\ IngestInit
    /\ hookGuarded = TRUE
    /\ aiPayloads = Payloads

\* ----------------------------------------------------------- catch block
\* a catch block that reports the failure as an ordinary end of the call
Catch_AsCallEnded(err, cid) ==
    /\ error' = err
    /\ sendWebhook("call_ended", cid, "catch", 0)
    /\ mainPc' = "AwaitErrorPost"

\* catch (error) { await sendWebhook({type: "call_error", ...}); ... }
Catch(err, cid) ==
    /\ error' = err
    /\ sendWebhook("call_error", cid, "catch", 0)
    /\ mainPc' = "AwaitErrorPost"

\* --------------------------------------------------- CallAlerting handler
\* a handler that notifies the backend before it parses the context payload
CallAlerting_StartedBeforeParse(parseOk) ==
    /\ mainPc = "Alerting"
    /\ ~terminated
    /\ callLeg' = "connected"
    /\ IF parseOk
         THEN /\ callData' = CallId
              /\ sendWebhook("call_started", CallId, "main", 0)
              /\ mainPc' = "AwaitStartedPost"
              /\ error' = error
         ELSE /\ callData' = callData
              /\ error' = "parse"
              /\ emitted' = emitted \o <<[type |-> "call_started", call_id |-> callData],
                                         [type |-> "call_error", call_id |-> callData]>>
              /\ posts' = posts \o <<[Post("call_started", "main", 0) EXCEPT !.status = "settled"],
                                     Post("call_error", "catch", 0)>>
              /\ mainPc' = "AwaitErrorPost"
    /\ UNCHANGED <<webhookLog, geminiClient, listeners, raised, pending, lost, sigPc,
                   toolPc, timers, toolResponses, hangupCalls, received,
                   terminated>>
    /\ UNCHANGED <<aiPayloads, toolAcks, dashVars, pingVars, ingestVars, hookGuarded>>

\* call.answer(); JSON.parse(call.customData()); await sendWebhook(call_started)
CallAlerting(parseOk) ==
    /\ mainPc = "Alerting"
    /\ ~terminated
    /\ callLeg' = "connected"
    /\ IF parseOk
         THEN /\ callData' = CallId
              /\ sendWebhook("call_started", CallId, "main", 0)
              /\ mainPc' = "AwaitStartedPost"
              /\ error' = error
         ELSE /\ callData' = callData
              /\ Catch("parse", callData)
    /\ UNCHANGED <<webhookLog, geminiClient, listeners, raised, pending, lost, sigPc,
                   toolPc, timers, toolResponses, hangupCalls, received,
                   terminated>>
    /\ UNCHANGED <<aiPayloads, toolAcks, dashVars, pingVars, ingestVars, hookGuarded>>

\* the call_started POST settles; the handler goes on to
\* await Gemini.createLiveAPIClient(...)
StartedPostSettles(outcome) ==
    /\ mainPc = "AwaitStartedPost"
    /\ ~terminated
    /\ LET i == PostOf("main", 0) IN
       /\ InFlight(i)
       /\ received' = Delivered(i, outcome)
       /\ webhookLog' = Logged(outcome)
       /\ IF sendWebhookResult(outcome) = "returned"
            THEN /\ posts' = Settled(i)
                 /\ mainPc' = "AwaitGemini"
                 /\ UNCHANGED <<error, emitted>>
            ELSE /\ error' = "webhook"
                 /\ emitted' = Append(emitted, Event("call_error"))
                 /\ posts' = Append(Settled(i), Post("call_error", "catch", 0))
                 /\ mainPc' = "AwaitErrorPost"
    /\ UNCHANGED <<callLeg, callData, geminiClient, listeners, raised, pending,
                   lost, sigPc, toolPc, timers, toolResponses, hangupCalls,
                   terminated>>
    /\ UNCHANGED <<aiPayloads, toolAcks, dashVars, pingVars, ingestVars, hookGuarded>>

\* createLiveAPIClient settles; on success VoxEngine.sendMediaBetween and the
\* three addEventListener calls run in the same turn
GeminiSettles(connected, bridged) ==
    /\ mainPc = "AwaitGemini"
    /\ ~terminated
    /\ IF ~connected
         THEN /\ Catch("gemini", callData)
              /\ UNCHANGED <<geminiClient, listeners>>
         ELSE /\ geminiClient' = "open"
              /\ IF bridged
                   THEN /\ listeners' = TRUE
                        /\ mainPc' = "Listening"
                        /\ UNCHANGED <<error, emitted, posts>>
                   ELSE /\ Catch("bridge", callData)
                        /\ UNCHANGED listeners
    /\ UNCHANGED <<webhookLog, callLeg, callData, raised, pending, lost, sigPc, toolPc,
                   timers, toolResponses, hangupCalls, received, terminated>>
    /\ UNCHANGED <<aiPayloads, toolAcks, dashVars, pingVars, ingestVars, hookGuarded>>

\* the call_error POST settles: if (call) call.hangup(); VoxEngine.terminate()
ErrorPostSettles(outcome) ==
    /\ mainPc = "AwaitErrorPost"
    /\ ~terminated
    /\ LET i == PostOf("catch", 0) IN
       /\ InFlight(i)
       /\ received' = Delivered(i, outcome)
       /\ webhookLog' = Logged(outcome)
       /\ posts' = Settled(i)
       /\ IF sendWebhookResult(outcome) = "returned"
            THEN /\ callLeg' = "closed"
                 /\ hangupCalls' = hangupCalls + 1
                 /\ terminated' = TRUE
                 /\ mainPc' = "Done"
            ELSE /\ mainPc' = "Rejected"
                 /\ UNCHANGED <<callLeg, hangupCalls, terminated>>
    /\ UNCHANGED <<callData, geminiClient, listeners, error, raised, pending,
                   lost, sigPc, toolPc, timers, toolResponses, emitted>>
    /\ UNCHANGED <<aiPayloads, toolAcks, dashVars, pingVars, ingestVars, hookGuarded>>

\* ------------------------------------------------------ ToolCall listener
\* the AI engine raises ToolCall; for save_call_result the listener awaits
\* sendWebhook(call_result)
ToolCall(name, params) ==
    /\ listeners
    /\ ~terminated
    /\ geminiClient = "open"
    /\ Len(toolPc) < MaxToolCalls
    /\ IF name = "save_call_result"
         THEN /\ sendResultWebhook(callData, params, Len(toolPc) + 1)
              /\ toolPc' = Append(toolPc, "AwaitResultPost")
         ELSE /\ toolPc' = Append(toolPc, "ignored")
              /\ UNCHANGED <<emitted, posts>>
    /\ UNCHANGED <<webhookLog, mainPc, callLeg, callData, geminiClient, listeners, error,
                   raised, pending, lost, sigPc, timers, toolResponses,
                   hangupCalls, received, terminated>>
    /\ UNCHANGED <<aiPayloads, toolAcks, dashVars, pingVars, ingestVars, hookGuarded>>

\* a tool response that reports whether the call_result POST was delivered
toolResponse_FromDelivery(outcome) == [success |-> outcome = "ok"]

\* geminiClient.sendToolResponse({id, response: {success: true, message}})
toolResponse(outcome) == [success |-> TRUE]

\* a Disconnected / Failed listener that closes the AI client and returns
\* without VoxEngine.terminate()
EndedPostSettles_NoTerminate(s, outcome) ==
    /\ s \in Signals
    /\ sigPc[s] = "AwaitEndedPost"
    /\ ~terminated
    /\ LET i == PostOf(s, 0) IN
       /\ InFlight(i)
       /\ received' = Delivered(i, outcome)
       /\ webhookLog' = Logged(outcome)
       /\ posts' = Settled(i)
       /\ geminiClient' = IF geminiClient # "null" THEN "closed" ELSE geminiClient
       /\ sigPc' = [sigPc EXCEPT ![s] = "done"]
    /\ UNCHANGED <<mainPc, callLeg, callData, listeners, error, raised,
                   pending, lost, toolPc, timers, toolResponses, hangupCalls,
                   emitted, terminated>>
    /\ UNCHANGED <<aiPayloads, toolAcks, dashVars, pingVars, ingestVars, hookGuarded>>

\* the call_result POST settles: sendToolResponse, then setTimeout(hangup, 4000)
ResultPostSettles(k, outcome) ==
    /\ k \in 1..Len(toolPc)
    /\ toolPc[k] = "AwaitResultPost"
    /\ ~terminated
    /\ LET i == PostOf("tool", k) IN
       /\ InFlight(i)
       /\ received' = Delivered(i, outcome)
       /\ webhookLog' = Logged(outcome)
       /\ posts' = Settled(i)
       /\ IF sendWebhookResult(outcome) = "returned"
            THEN /\ toolResponses' = toolResponses + 1
                 /\ toolAcks' = toolAcks \cup {[outcome |-> outcome,
                                                 response |-> toolResponse(outcome)]}
                 /\ timers' = timers + 1
                 /\ toolPc' = [toolPc EXCEPT ![k] = "done"]
            ELSE /\ toolPc' = [toolPc EXCEPT ![k] = "rejected"]
                 /\ UNCHANGED <<toolResponses, toolAcks, timers>>
    /\ UNCHANGED <<mainPc, callLeg, callData, geminiClient, listeners, error,
                   raised, pending, lost, sigPc, hangupCalls, emitted,
                   terminated>>
    /\ UNCHANGED <<aiPayloads, dashVars, pingVars, ingestVars, hookGuarded>>

\* the 4 second timer fires: call.hangup(); the platform raises Disconnected
\* for a leg that is still connected
TimerFires ==
    /\ timers > 0
    /\ ~terminated
    /\ timers' = timers - 1
    /\ hangupCalls' = hangupCalls + 1
    /\ IF callLeg = "connected"
         THEN /\ callLeg' = "closed"
              /\ raised' = [raised EXCEPT !["Disconnected"] = mainPc]
              /\ pending' = pending \cup {"Disconnected"}
         ELSE UNCHANGED <<callLeg, raised, pending>>
    /\ UNCHANGED <<webhookLog, mainPc, callData, geminiClient, listeners, error, lost,
                   sigPc, toolPc, toolResponses, emitted, posts, received,
                   terminated>>
    /\ UNCHANGED <<aiPayloads, toolAcks, dashVars, pingVars, ingestVars, hookGuarded>>

\* ------------------------------------------------------- platform signals
\* the remote party hangs up (Disconnected) or the carrier fails the call
\* (Failed); each signal is raised at most once for the call leg
RaiseSignal(s) ==
    /\ s \in Signals
    /\ mainPc # "Alerting"
    /\ ~terminated
    /\ raised[s] = "no"
    /\ raised' = [raised EXCEPT ![s] = mainPc]
    /\ pending' = pending \cup {s}
    /\ callLeg' = "closed"
    /\ UNCHANGED <<webhookLog, mainPc, callData, geminiClient, listeners, error, lost,
                   sigPc, toolPc, timers, toolResponses, hangupCalls, emitted,
                   posts, received, terminated>>
    /\ UNCHANGED <<aiPayloads, toolAcks, dashVars, pingVars, ingestVars, hookGuarded>>

\* a listener that does not await sendWebhook: it closes the AI client and
\* terminates while the call_ended POST is still in flight
DeliverSignal_NoAwait(s) ==
    /\ s \in pending
    /\ ~terminated
    /\ pending' = pending \ {s}
    /\ IF listeners
         THEN /\ sendWebhook("call_ended", callData, s, 0)
              /\ sigPc' = [sigPc EXCEPT ![s] = "done"]
              /\ geminiClient' = IF geminiClient # "null" THEN "closed" ELSE geminiClient
              /\ terminated' = TRUE
              /\ lost' = lost
         ELSE /\ lost' = lost \cup {s}
              /\ UNCHANGED <<emitted, posts, sigPc, geminiClient, terminated>>
    /\ UNCHANGED <<webhookLog, mainPc, callLeg, callData, listeners, error,
                   raised, toolPc, timers, toolResponses, hangupCalls,
                   received>>
    /\ UNCHANGED <<aiPayloads, toolAcks, dashVars, pingVars, ingestVars, hookGuarded>>

\* the platform dispatches a raised signal: the registered listener starts
\* and awaits sendWebhook(call_ended); without a listener the signal is dropped
DeliverSignal(s) ==
    /\ s \in pending
    /\ ~terminated
    /\ pending' = pending \ {s}
    /\ IF listeners
         THEN /\ sendWebhook("call_ended", callData, s, 0)
              /\ sigPc' = [sigPc EXCEPT ![s] = "AwaitEndedPost"]
              /\ lost' = lost
         ELSE /\ lost' = lost \cup {s}
              /\ UNCHANGED <<emitted, posts, sigPc>>
    /\ UNCHANGED <<webhookLog, mainPc, callLeg, callData, geminiClient, listeners, error,
                   raised, toolPc, timers, toolResponses, hangupCalls,
                   received, terminated>>
    /\ UNCHANGED <<aiPayloads, toolAcks, dashVars, pingVars, ingestVars, hookGuarded>>

\* the call_ended POST settles: if (geminiClient) geminiClient.close();
\* VoxEngine.terminate()
EndedPostSettles(s, outcome) ==
    /\ s \in Signals
    /\ sigPc[s] = "AwaitEndedPost"
    /\ ~terminated
    /\ LET i == PostOf(s, 0) IN
       /\ InFlight(i)
       /\ received' = Delivered(i, outcome)
       /\ webhookLog' = Logged(outcome)
       /\ posts' = Settled(i)
       /\ IF sendWebhookResult(outcome) = "returned"
            THEN /\ geminiClient' = IF geminiClient # "null" THEN "closed" ELSE geminiClient
                 /\ terminated' = TRUE
                 /\ sigPc' = [sigPc EXCEPT ![s] = "done"]
            ELSE /\ sigPc' = [sigPc EXCEPT ![s] = "rejected"]
                 /\ UNCHANGED <<geminiClient, terminated>>
    /\ UNCHANGED <<mainPc, callLeg, callData, listeners, error, raised,
                   pending, lost, toolPc, timers, toolResponses, hangupCalls,
                   emitted>>
    /\ UNCHANGED <<aiPayloads, toolAcks, dashVars, pingVars, ingestVars, hookGuarded>>

\* ------------------------------------------------------------------- Next
Next ==
    \/ \E parseOk \in BOOLEAN : CallAlerting(parseOk)
    \/ \E o \in Outcomes : StartedPostSettles(o)
    \/ \E connected \in BOOLEAN, bridged \in BOOLEAN : GeminiSettles(connected, bridged)
    \/ \E o \in Outcomes : ErrorPostSettles(o)
    \/ \E name \in ToolNames, params \in aiPayloads : ToolCall(name, params)
    \/ \E k \in 1..MaxToolCalls, o \in Outcomes : ResultPostSettles(k, o)
    \/ TimerFires
    \/ \E s \in Signals : RaiseSignal(s)
    \/ \E s \in Signals : DeliverSignal(s)
    \/ \E s \in Signals, o \in Outcomes : EndedPostSettles(s, o)

Spec == Init /\ [][Next]_vars

\* the timer, the dispatch of raised signals and the settling of every POST
\* are guaranteed by the platform; the AI engine's connection, its tool
\* calls and the remote party's signals are not
FairSpec ==
    /\ Spec
    /\ WF_vars(\E o \in Outcomes : StartedPostSettles(o))
    /\ WF_vars(\E o \in Outcomes : ErrorPostSettles(o))
    /\ \A k \in 1..MaxToolCalls : WF_vars(\E o \in Outcomes : ResultPostSettles(k, o))
    /\ WF_vars(TimerFires)
    /\ \A s \in Signals : WF_vars(DeliverSignal(s))
    /\ \A s \in Signals : WF_vars(\E o \in Outcomes : EndedPostSettles(s, o))


\* ========================================================== dashboard client
\* (frontend/src/App.jsx and frontend/src/hooks/useWebSocket.js)

\* ---------------------------------------------------------------- bounds
\* number of events the backend broadcasts
MaxPublished == 2
\* number of WebSocket objects connect() creates
MaxSockets == 3
\* number of call_result events broadcast when only results are published
MaxResultEvents == 11
\* number of events broadcast when complete calls are published
MaxScenarioEvents == 3
\* number of ping frames sent
MaxPings == 3
\* number of webhook events handed to the ingest
MaxIngested == 3
\* number of frames sent when any frame may be sent
MaxFrames == 3

\* ------------------------------------------------------------- constants
\* .slice(0, 10)
MaxRecentResults == 10
CallIds == {"c1", "c2"}
MessageTypes == {"call_started", "call_result", "call_ended", "call_error"}
Messages == [type : MessageTypes, call_id : CallIds]

Ids(calls) == {calls[i].call_id : i \in 1..Len(calls)}

\* message.<f>: undefined for a field the message does not have
Field(m, f) == IF f \in DOMAIN m THEN m[f] ELSE Undefined

\* the three messages of one complete call, as the backend broadcasts them
ScenarioStarted(c) ==
    [type |-> "call_started", call_id |-> c, lead_id |-> "lead-" \o c,
     lead_name |-> "name-" \o c, timestamp |-> "t0"]

ScenarioResult(c) ==
    [type |-> "call_result", call_id |-> c,
     disposition |-> IF c = "c1" THEN "COMPLETED_REGISTRATION" ELSE "NEEDS_HELP",
     cx_score |-> 9, summary |-> "summary-" \o c]

ScenarioEnded(c) == [type |-> "call_ended", call_id |-> c]

ScenarioMessages ==
    UNION {{ScenarioStarted(c), ScenarioResult(c), ScenarioEnded(c)} : c \in CallIds}

\* ------------------------------------------------- handleWebSocketMessage
\* a call_started that replaces the list with the new call
AddActiveCall_Replace(prev, m) ==
    <<[call_id |-> m.call_id, lead_id |-> Field(m, "lead_id"),
       lead_name |-> Field(m, "lead_name"),
       timestamp |-> Field(m, "timestamp")]>>

\* setActiveCalls(prev => [...prev, {call_id: message.call_id, ...}])
AddActiveCall(prev, m) ==
    Append(prev, [call_id |-> m.call_id, lead_id |-> Field(m, "lead_id"),
                  lead_name |-> Field(m, "lead_name"),
                  timestamp |-> Field(m, "timestamp")])

\* a filter with the comparison inverted: it keeps the ended call only
RemoveActiveCall_KeepsMatch(prev, m) == SelectSeq(prev, LAMBDA c : c.call_id = m.call_id)

\* setActiveCalls(prev => prev.filter(call => call.call_id !== message.call_id))
RemoveActiveCall(prev, m) == SelectSeq(prev, LAMBDA c : c.call_id # m.call_id)

\* the entry built from a call_result message; timestamp: new Date()
ResultEntry(m, ts) ==
    [call_id |-> m.call_id, disposition |-> Field(m, "disposition"),
     cx_score |-> Field(m, "cx_score"), summary |-> Field(m, "summary"),
     timestamp |-> ts]

\* a buffer that appends at the tail before slicing, so a full buffer drops
\* the newest entry
AddRecentResult_AppendTail(prev, m, ts) ==
    LET all == prev \o <<ResultEntry(m, ts)>>
    IN  SubSeq(all, 1, IF Len(all) < MaxRecentResults THEN Len(all) ELSE MaxRecentResults)

\* setRecentResults(prev => [{...}, ...prev].slice(0, 10))
AddRecentResult(prev, m, ts) ==
    LET all == <<ResultEntry(m, ts)>> \o prev
    IN  SubSeq(all, 1, IF Len(all) < MaxRecentResults THEN Len(all) ELSE MaxRecentResults)

\* a handler whose call_result branch also takes the call off the active list
handleWebSocketMessage_ResultRemoves(m) ==
    /\ activeCalls' = CASE m.type = "call_started" -> AddActiveCall(activeCalls, m)
                        [] m.type \in {"call_ended", "call_result"} ->
                               RemoveActiveCall(activeCalls, m)
                        [] OTHER -> activeCalls
    /\ IF m.type = "call_result"
         THEN /\ recentResults' = AddRecentResult(recentResults, m, clock + 1)
              /\ clock' = clock + 1
         ELSE UNCHANGED <<recentResults, clock>>

handleWebSocketMessage(m) ==
    /\ activeCalls' = CASE m.type = "call_started" -> AddActiveCall(activeCalls, m)
                        [] m.type = "call_ended" -> RemoveActiveCall(activeCalls, m)
                        [] OTHER -> activeCalls
    /\ IF m.type = "call_result"
         THEN /\ recentResults' = AddRecentResult(recentResults, m, clock + 1)
              /\ clock' = clock + 1
         ELSE UNCHANGED <<recentResults, clock>>

\* ------------------------------------------------------------ useWebSocket
\* connect(): new WebSocket(WS_URL) inside try/catch; the constructor throws
\* for a WS_URL it cannot use, the catch block only logs
connect(throws) ==
    IF Flag \/ throws
      THEN UNCHANGED sockets
      ELSE sockets' = Append(sockets, "connecting")

\* an effect that calls connect() twice
Mount_ConnectTwice(throws) ==
    /\ ~mounted
    /\ mounted' = TRUE
    /\ sockets' = sockets \o <<"connecting", "connecting">>
    /\ UNCHANGED <<isCleanedUp, reconnectTimers, reconnectTimeoutRef, isConnected,
                   lastMessage, activeCalls, recentResults, clock, published,
                   wire, relayed>>
    /\ UNCHANGED <<runtimeVars, pingVars, ingestVars, hookGuarded>>

\* the effect runs on mount: connect()
Mount(throws) ==
    /\ ~mounted
    /\ mounted' = TRUE
    /\ connect(throws)
    /\ UNCHANGED <<isCleanedUp, reconnectTimers, reconnectTimeoutRef, isConnected,
                   lastMessage, activeCalls, recentResults, clock, published,
                   wire, relayed>>
    /\ UNCHANGED <<runtimeVars, pingVars, ingestVars, hookGuarded>>

\* an onopen that hands the last message to the handler again
SocketOpens_Replay(i) ==
    /\ i \in 1..Len(sockets)
    /\ sockets[i] = "connecting"
    /\ sockets' = [sockets EXCEPT ![i] = "open"]
    /\ isConnected' = IF isCleanedUp THEN isConnected ELSE TRUE
    /\ IF lastMessage = NoMessage
         THEN UNCHANGED <<activeCalls, recentResults, clock>>
         ELSE handleWebSocketMessage(lastMessage)
    /\ UNCHANGED <<mounted, isCleanedUp, reconnectTimers, reconnectTimeoutRef,
                   lastMessage, published, wire, relayed>>
    /\ UNCHANGED <<runtimeVars, pingVars, ingestVars, hookGuarded>>

\* ws.onopen: setIsConnected(true)
SocketOpens(i) ==
    /\ i \in 1..Len(sockets)
    /\ sockets[i] = "connecting"
    /\ sockets' = [sockets EXCEPT ![i] = "open"]
    /\ isConnected' = IF isCleanedUp THEN isConnected ELSE TRUE
    /\ UNCHANGED <<mounted, isCleanedUp, reconnectTimers, reconnectTimeoutRef,
                   lastMessage, activeCalls, recentResults, clock, published,
                   wire, relayed>>
    /\ UNCHANGED <<runtimeVars, pingVars, ingestVars, hookGuarded>>

\* an onclose that leaves the indicator as it is
SocketCloses_KeepsConnected(i) ==
    /\ i \in 1..Len(sockets)
    /\ sockets[i] \in {"connecting", "open", "closing"}
    /\ sockets' = [sockets EXCEPT ![i] = "closed"]
    /\ wire' = <<>>
    /\ IF Flag
         THEN UNCHANGED <<reconnectTimers, reconnectTimeoutRef>>
         ELSE /\ reconnectTimers' = reconnectTimers \cup {i}
              /\ reconnectTimeoutRef' = i
    /\ UNCHANGED <<mounted, isCleanedUp, isConnected, lastMessage, activeCalls,
                   recentResults, clock, published, relayed>>
    /\ UNCHANGED <<runtimeVars, pingVars, ingestVars, hookGuarded>>

\* an onclose that does not schedule the reconnect
SocketCloses_NoRetry(i) ==
    /\ i \in 1..Len(sockets)
    /\ sockets[i] \in {"connecting", "open", "closing"}
    /\ sockets' = [sockets EXCEPT ![i] = "closed"]
    /\ wire' = <<>>
    /\ isConnected' = IF isCleanedUp THEN isConnected ELSE FALSE
    /\ UNCHANGED <<mounted, isCleanedUp, reconnectTimers, reconnectTimeoutRef,
                   lastMessage, activeCalls, recentResults, clock, published,
                   relayed>>
    /\ UNCHANGED <<runtimeVars, pingVars, ingestVars, hookGuarded>>

\* the connection closes or the attempt fails; frames still in flight are
\* gone.  ws.onclose: setIsConnected(false); setTimeout(connect, 3000)
SocketCloses(i) ==
    /\ i \in 1..Len(sockets)
    /\ sockets[i] \in {"connecting", "open", "closing"}
    /\ sockets' = [sockets EXCEPT ![i] = "closed"]
    /\ wire' = <<>>
    /\ IF Flag
         THEN UNCHANGED <<isConnected, reconnectTimers, reconnectTimeoutRef>>
         ELSE /\ isConnected' = IF isCleanedUp THEN isConnected ELSE FALSE
              /\ reconnectTimers' = reconnectTimers \cup {i}
              /\ reconnectTimeoutRef' = i
    /\ UNCHANGED <<mounted, isCleanedUp, lastMessage, activeCalls, recentResults,
                   clock, published, relayed>>
    /\ UNCHANGED <<runtimeVars, pingVars, ingestVars, hookGuarded>>

\* the 3 second timer fires: connect().  WS_URL is the one the first
\* connect() accepted, so the constructor does not throw here
ReconnectTimerFires(t) ==
    /\ t \in reconnectTimers
    /\ Flag \/ Len(sockets) < MaxSockets
    /\ reconnectTimers' = reconnectTimers \ {t}
    /\ connect(FALSE)
    /\ UNCHANGED <<mounted, isCleanedUp, reconnectTimeoutRef, isConnected,
                   lastMessage, activeCalls, recentResults, clock, published,
                   wire, relayed>>
    /\ UNCHANGED <<runtimeVars, pingVars, ingestVars, hookGuarded>>

\* a frame that is not JSON
Unparseable == [type |-> "unparseable", call_id |-> "none"]

\* a parser that accepts every frame
Parses_Always(m) == TRUE

\* JSON.parse(event.data) returns
Parses(m) == m # Unparseable

\* an onmessage that leaves the frame queued, so it is handled again
OnMessage_Redeliver ==
    /\ wire # <<>>
    /\ ~isCleanedUp
    /\ published[Head(wire)].handled < 2
    /\ lastMessage' = published[Head(wire)].msg
    /\ published' = [published EXCEPT ![Head(wire)].handled = @ + 1]
    /\ handleWebSocketMessage(published[Head(wire)].msg)
    /\ UNCHANGED <<mounted, isCleanedUp, sockets, reconnectTimers,
                   reconnectTimeoutRef, isConnected, relayed, wire>>
    /\ UNCHANGED <<runtimeVars, pingVars, ingestVars, hookGuarded>>

\* ws.onmessage: JSON.parse inside try/catch, setLastMessage(data),
\* onMessageRef.current(data).  A frame that does not parse is logged and
\* dropped; after unmount the state setters do nothing, so the hook without
\* the flag still calls the handler but changes no state
OnMessage ==
    /\ wire # <<>>
    /\ wire' = Tail(wire)
    /\ LET i == Head(wire) IN
       CASE Flag \/ ~Parses(published[i].msg) ->
                UNCHANGED <<lastMessage, published, activeCalls, recentResults, clock>>
         [] ~Flag /\ Parses(published[i].msg) /\ isCleanedUp ->
                /\ published' = [published EXCEPT ![i].handled = @ + 1]
                /\ UNCHANGED <<lastMessage, activeCalls, recentResults, clock>>
         [] OTHER ->
                /\ lastMessage' = published[i].msg
                /\ published' = [published EXCEPT ![i].handled = @ + 1]
                /\ handleWebSocketMessage(published[i].msg)
    /\ UNCHANGED <<mounted, isCleanedUp, sockets, reconnectTimers,
                   reconnectTimeoutRef, isConnected, relayed>>
    /\ UNCHANGED <<runtimeVars, pingVars, ingestVars, hookGuarded>>

\* cleanup on unmount: isCleanedUp = true; clearTimeout; wsRef.current.close();
\* the ping effect's cleanup runs in the same unmount: clearInterval
Cleanup ==
    /\ mounted
    /\ ~isCleanedUp
    /\ isCleanedUp' = TRUE
    /\ reconnectTimers' = reconnectTimers \ {reconnectTimeoutRef}
    /\ sockets' = IF sockets # <<>> /\ sockets[Len(sockets)] \in {"connecting", "open"}
                    THEN [sockets EXCEPT ![Len(sockets)] = "closing"]
                    ELSE sockets
    /\ pingInterval' = FALSE
    /\ UNCHANGED <<mounted, reconnectTimeoutRef, isConnected, lastMessage,
                   activeCalls, recentResults, clock, published, wire, relayed>>
    /\ UNCHANGED <<runtimeVars, pings, ingestVars, hookGuarded>>

\* ------------------------------------------------------------------ ping
\* wsRef.current && wsRef.current.readyState === WebSocket.OPEN
WsOpen == sockets # <<>> /\ sockets[Len(sockets)] = "open"

\* a sendMessage without the readyState check
sendMessage_NoGuard == pings' = pings + 1

\* sendMessage({type: "ping"}): send on an OPEN socket, else console.warn
sendMessage == IF WsOpen THEN pings' = pings + 1 ELSE UNCHANGED pings

\* React re-runs the [isConnected] effect after the render that follows a
\* change of isConnected: the previous interval is cleared, and a new one is
\* set when isConnected is true
RunPingEffect ==
    /\ mounted
    /\ ~isCleanedUp
    /\ pingInterval # isConnected
    /\ pingInterval' = isConnected
    /\ UNCHANGED <<pings, dashVars, runtimeVars, ingestVars, hookGuarded>>

\* the 30 second interval fires: sendMessage({type: "ping"})
PingTick ==
    /\ pingInterval
    /\ pings < MaxPings
    /\ sendMessage
    /\ UNCHANGED <<pingInterval, dashVars, runtimeVars, ingestVars, hookGuarded>>

\* the hook with its ping effect, no events broadcast
PingNext ==
    \/ \E throws \in BOOLEAN : Mount(throws)
    \/ \E i \in 1..MaxSockets : SocketOpens(i)
    \/ \E i \in 1..MaxSockets : SocketCloses(i)
    \/ \E t \in 1..MaxSockets : ReconnectTimerFires(t)
    \/ Cleanup
    \/ RunPingEffect
    \/ PingTick

PingSpec == Init /\ [][PingNext]_vars

\* React runs pending effects, and the browser fires the interval and the
\* reconnect timers
FairPingSpec ==
    /\ PingSpec
    /\ WF_vars(RunPingEffect)
    /\ WF_vars(PingTick)
    /\ WF_vars(\E t \in 1..MaxSockets : ReconnectTimerFires(t))

\* ------------------------------------------------------- broadcast channel
\* the backend pushes an event to the clients connected at publish time and
\* keeps no backlog
Connected == \E i \in 1..Len(sockets) : sockets[i] = "open"

Publish(m, bound) ==
    /\ Len(published) < bound
    /\ published' = Append(published, [msg |-> m, sent |-> Connected, handled |-> 0])
    /\ wire' = IF Connected THEN Append(wire, Len(published) + 1) ELSE wire
    /\ UNCHANGED <<mounted, isCleanedUp, sockets, reconnectTimers,
                   reconnectTimeoutRef, isConnected, lastMessage, activeCalls,
                   recentResults, clock, relayed>>
    /\ UNCHANGED <<runtimeVars, pingVars, ingestVars, hookGuarded>>

\* the backend relays the webhook events it received, in order and verbatim,
\* to a connected dashboard, which handles them
RelayedMessage(i) == [type |-> received[i], call_id |-> callData]

Relay ==
    /\ relayed < Len(received)
    /\ relayed' = relayed + 1
    /\ lastMessage' = RelayedMessage(relayed + 1)
    /\ handleWebSocketMessage(RelayedMessage(relayed + 1))
    /\ UNCHANGED <<mounted, isCleanedUp, sockets, reconnectTimers,
                   reconnectTimeoutRef, isConnected, published, wire>>
    /\ UNCHANGED <<runtimeVars, pingVars, ingestVars, hookGuarded>>

\* ---------------------------------------------------------- webhook ingest
\* the envelopes the runtime can POST: call_result carries the payload
IngestEvents ==
    [type : {"call_started", "call_ended", "call_error"}, call_id : CallIds]
    \cup {[type |-> "call_result", call_id |-> c,
           disposition |-> p.disposition, cx_score |-> p.cx_score] :
              c \in CallIds, p \in Payloads}

RegistryIds == {registry[i] : i \in 1..Len(registry)}

\* a validation that accepts every payload
ValidResult_Any(e) == TRUE

\* disposition in the enum of the session's campaign (every session here is
\* a registration-recovery session) and cx_score within 1..10
ValidResult(e) ==
    /\ e.cx_score \in MinCxScore..MaxCxScore
    /\ e.disposition \in Dispositions

\* an ingest that creates a registry entry for every call_started
Ingest_NoDedupe(e) ==
    /\ Len(ingested) < MaxIngested
    /\ ingested' = Append(ingested, e)
    /\ IF e.type = "call_started"
         THEN /\ registry' = Append(registry, e.call_id)
              /\ sessions' = [sessions EXCEPT ![e.call_id] = "active"]
              /\ broadcasts' = broadcasts + 1
              /\ UNCHANGED results
         ELSE UNCHANGED <<registry, sessions, results, broadcasts>>
    /\ UNCHANGED <<runtimeVars, dashVars, pingVars, hookGuarded>>

\* one envelope is processed: call_started creates the entry if the session
\* is absent; a valid call_result of an active session is persisted; a
\* terminal event of a live session removes the entry and marks the session
\* terminal; anything else (duplicate, unknown call_id, invalid payload,
\* terminal session) is a no-op.  Every mutation is republished.
Ingest(e) ==
    /\ Len(ingested) < MaxIngested
    /\ ingested' = Append(ingested, e)
    /\ LET c == e.call_id IN
       CASE e.type = "call_started" /\ sessions[c] = "absent" ->
                /\ registry' = Append(registry, c)
                /\ sessions' = [sessions EXCEPT ![c] = "active"]
                /\ broadcasts' = broadcasts + 1
                /\ UNCHANGED results
         [] e.type = "call_result" /\ sessions[c] = "active" /\ ValidResult(e) ->
                /\ results' = [results EXCEPT ![c] = [disposition |-> e.disposition,
                                                     cx_score |-> e.cx_score]]
                /\ sessions' = [sessions EXCEPT ![c] = "ResultCaptured"]
                /\ broadcasts' = broadcasts + 1
                /\ UNCHANGED registry
         [] e.type \in {"call_ended", "call_error"}
              /\ sessions[c] \in {"active", "ResultCaptured"} ->
                /\ registry' = SelectSeq(registry, LAMBDA x : x # c)
                /\ sessions' = [sessions EXCEPT ![c] = "terminal"]
                /\ broadcasts' = broadcasts + 1
                /\ UNCHANGED results
         [] OTHER -> UNCHANGED <<registry, sessions, results, broadcasts>>
    /\ UNCHANGED <<runtimeVars, dashVars, pingVars, hookGuarded>>

IngestNext == \E e \in IngestEvents : Ingest(e)

IngestSpec == Init /\ [][IngestNext]_vars

\* ------------------------------------------------------------- dashboard
\* what the server may send besides the four events: a reply to the ping and
\* a frame that is not JSON
Pong == [type |-> "pong", call_id |-> "none"]

Frames == Messages \cup {Pong, Unparseable}

DashNext ==
    \/ \E throws \in BOOLEAN : Mount(throws)
    \/ \E i \in 1..MaxSockets : SocketOpens(i)
    \/ \E i \in 1..MaxSockets : SocketCloses(i)
    \/ \E t \in 1..MaxSockets : ReconnectTimerFires(t)
    \/ \E m \in Messages : Publish(m, MaxPublished)
    \/ OnMessage
    \/ Cleanup

DashSpec == Init /\ [][DashNext]_vars

\* the browser fires every pending reconnect timer
FairDashSpec ==
    /\ DashSpec
    /\ WF_vars(\E t \in 1..MaxSockets : ReconnectTimerFires(t))

\* both copies of the hook
HooksSpec == HooksInit /\ [][DashNext]_vars

\* any frame is sent to a client that stays connected
FramesNext ==
    \/ \E throws \in {FALSE} : Mount(throws)
    \/ \E i \in {1} : SocketOpens(i)
    \/ \E f \in Frames : Publish(f, MaxFrames)
    \/ OnMessage

FramesSpec == Init /\ [][FramesNext]_vars

\* only call_result events are broadcast, to a client that stays connected
ResultsNext ==
    \/ \E throws \in {FALSE} : Mount(throws)
    \/ \E i \in {1} : SocketOpens(i)
    \/ \E c \in CallIds : Publish([type |-> "call_result", call_id |-> c], MaxResultEvents)
    \/ OnMessage

ResultsSpec == Init /\ [][ResultsNext]_vars

\* the messages of complete calls are broadcast, in any order, to a client
\* that stays connected
ScenarioNext ==
    \/ \E throws \in {FALSE} : Mount(throws)
    \/ \E i \in {1} : SocketOpens(i)
    \/ \E m \in ScenarioMessages : Publish(m, MaxScenarioEvents)
    \/ OnMessage

ScenarioSpec == Init /\ [][ScenarioNext]_vars

\* the runtime, with the events the backend received relayed to the dashboard
E2ENext ==
    \/ Next
    \/ Relay

E2ESpec == Init /\ [][E2ENext]_vars

\* the runtime with an AI engine that may send any of the payloads
PayloadSpec == PayloadInit /\ [][Next]_vars

\* =============================================================== properties
Terminal == {"call_ended", "call_error"}

Count(type) == Cardinality({i \in 1..Len(emitted) : emitted[i].type = type})

StartedBefore(j) == Cardinality({i \in 1..(j - 1) : emitted[i].type = "call_started"})

\* C1: the events emitted for a call are ordered: call_started precedes every
\* call_result, and every call_result precedes the terminal event
C1_EventOrder ==
    \A j \in 1..Len(emitted) :
        emitted[j].type = "call_result" =>
            /\ \E i \in 1..(j - 1) : emitted[i].type = "call_started"
            /\ \A i \in 1..(j - 1) : emitted[i].type \notin Terminal

\* C2: at most one terminal event (call_ended or call_error) is emitted
C2_AtMostOneTerminal == Count("call_ended") + Count("call_error") <= 1

\* C3: at most one call_result is emitted, however often the AI engine
\* invokes save_call_result
C3_AtMostOneResult == Count("call_result") <= 1

\* C4 (as claimed): a session that emits any event emits call_started exactly
\* once, before its terminal event, also when the context payload is malformed
C4_StartedExactlyOnce_Original ==
    /\ Count("call_started") <= 1
    /\ \A j \in 1..Len(emitted) :
           emitted[j].type \in Terminal => StartedBefore(j) = 1

\* C4 (amended): call_started is emitted at most once; every call_result,
\* call_ended and every call_error raised after the context payload was parsed
\* is preceded by exactly one call_started; a session whose context payload
\* cannot be parsed emits call_error and no call_started
C4_StartedExactlyOnce ==
    /\ Count("call_started") <= 1
    /\ \A j \in 1..Len(emitted) :
           (emitted[j].type \in {"call_result", "call_ended"}
              \/ (emitted[j].type = "call_error" /\ error # "parse"))
           => StartedBefore(j) = 1
    /\ error = "parse" => Count("call_started") = 0

C4_Witness ==
    /\ terminated
    /\ error = "gemini"
    /\ Count("call_started") = 1
    /\ emitted[Len(emitted)].type = "call_error"

\* C5: at most one webhook POST is in flight at any time, and the backend
\* never receives the terminal event of a call before its call_result
C5_OnePostInFlight ==
    /\ Cardinality({i \in 1..Len(posts) : InFlight(i)}) <= 1
    /\ \A j \in 1..Len(received) :
           received[j] = "call_result" =>
               \A i \in 1..(j - 1) : received[i] \notin Terminal

\* C6: a hangup or carrier failure signalled after the call was answered,
\* also while the handler still awaits the call_started POST or the AI-engine
\* connection, ends the session with call_ended and never with call_error
RaisedAfterAnswer ==
    \E s \in Signals : raised[s] \in {"AwaitStartedPost", "AwaitGemini", "Listening"}

C6_HangupEndsWithCallEnded ==
    RaisedAfterAnswer =>
        /\ Count("call_error") = 0
        /\ terminated => Count("call_ended") >= 1

\* C7: a setup exception results in exactly one call_error, a hangup of the
\* call leg and termination, with no call_result and no call_ended, and the
\* call is not attempted again
C7_SetupFailure ==
    error # "none" =>
        /\ Count("call_error") = 1
        /\ Count("call_result") = 0
        /\ Count("call_ended") = 0
        /\ Count("call_started") <= 1
        /\ mainPc \in {"AwaitErrorPost", "Done"}
        /\ mainPc = "AwaitErrorPost" => InFlight(PostOf("catch", 0)) /\ ~terminated
        /\ mainPc = "Done" => terminated /\ hangupCalls = 1 /\ callLeg = "closed"

C7_Witness ==
    /\ error = "bridge"
    /\ terminated
    /\ hangupCalls = 1
    /\ Count("call_error") = 1

\* C8: when the session is terminated, the call leg and the AI-engine
\* connection have been closed
C8_ClosedAtTermination ==
    terminated => callLeg = "closed" /\ geminiClient # "open"

\* C9: once a save_call_result invocation has been handled, the session
\* reaches Terminated
ResultCaptured == \E k \in 1..Len(toolPc) : toolPc[k] = "done"

C9_ResultLeadsToTerminated == ResultCaptured ~> terminated

\* C10: one POST attempt per emitted event and no retry; a failed delivery
\* is not escalated and the awaiting handler resumes exactly as after a
\* successful one
Resumed(p) ==
    CASE p.owner = "main" -> mainPc # "AwaitStartedPost" /\ error # "webhook"
      [] p.owner = "catch" -> mainPc = "Done" /\ terminated
      [] p.owner = "tool" -> toolPc[p.k] = "done"
      [] OTHER -> sigPc[p.owner] = "done" /\ terminated

C10_BestEffortDelivery ==
    /\ Len(posts) = Len(emitted)
    /\ \A i \in 1..Len(posts) :
           /\ posts[i].type = emitted[i].type
           /\ posts[i].status = "settled" => Resumed(posts[i])
    /\ error # "webhook"

C10_Witness ==
    /\ terminated
    /\ Len(posts) >= 3
    /\ \A i \in 1..Len(posts) : posts[i].status = "settled"
    /\ webhookLog = {"non2xx", "neterror"}

\* C11: no call_result is emitted whose cx_score is outside 1..10 or whose
\* disposition is not one of the five values of the scenario's enum
C11_PayloadValidated ==
    \A i \in 1..Len(emitted) :
        emitted[i].type = "call_result" =>
            /\ emitted[i].cx_score \in MinCxScore..MaxCxScore
            /\ emitted[i].disposition \in Dispositions

\* C12: after a carrier failure before the AI-engine connection the session
\* emits call_error and no call_result, and once the dashboard has handled
\* the events of the call its ActiveCalls has no entry for it
FailedDuringSetup == raised["Failed"] \in {"AwaitStartedPost", "AwaitGemini"}

C12_Scenario3 ==
    (/\ FailedDuringSetup
     /\ terminated
     /\ Len(received) = Len(emitted)
     /\ relayed = Len(received)) =>
        /\ Count("call_error") = 1
        /\ Count("call_result") = 0
        /\ CallId \notin Ids(activeCalls)

\* C13: a session does not stay in AnsweredConnectingAI (awaiting the
\* AI-engine connection) forever
C13_ConnectTimeout == (mainPc = "AwaitGemini") ~> (mainPc # "AwaitGemini")

\* C14: right after the dashboard has handled call_ended or call_error for a
\* call_id, ActiveCalls has no entry with that call_id
C14_TerminalRemoves ==
    lastMessage.type \in Terminal => lastMessage.call_id \notin Ids(activeCalls)

\* C15: ActiveCalls has at most one entry per call_id
C15_OneEntryPerCall == Cardinality(Ids(activeCalls)) = Len(activeCalls)

\* C16: a call_id whose terminal event has been handled is not in ActiveCalls,
\* whatever was handled before or after it
C16_NoEntryAfterTerminal ==
    \A i \in 1..Len(published) :
        (published[i].handled > 0 /\ published[i].msg.type \in Terminal) =>
            published[i].msg.call_id \notin Ids(activeCalls)

\* C17: RecentResults has at most 10 entries, newest first: it is the last
\* (at most 10) handled call_result events, the latest at the head
HandledResults ==
    SelectSeq(published, LAMBDA e : e.handled > 0 /\ e.msg.type = "call_result")

C17_RecentResultsBounded ==
    /\ Len(recentResults) <= MaxRecentResults
    /\ Len(recentResults) = IF clock < MaxRecentResults THEN clock ELSE MaxRecentResults
    /\ clock = Len(HandledResults)
    /\ \A i \in 1..Len(recentResults) :
           /\ recentResults[i].timestamp = clock - i + 1
           /\ recentResults[i].call_id = HandledResults[clock - i + 1].msg.call_id

C17_Witness ==
    /\ clock = MaxRecentResults + 1
    /\ Len(recentResults) = MaxRecentResults
    /\ recentResults[MaxRecentResults].timestamp = 2

\* C18: closing the channel, the reconnect delay and the new connection
\* change neither ActiveCalls nor RecentResults, and hand no event to the
\* handler
C18_ReconnectKeepsState ==
    [][(sockets' # sockets \/ reconnectTimers' # reconnectTimers) =>
          /\ activeCalls' = activeCalls
          /\ recentResults' = recentResults
          /\ lastMessage' = lastMessage
          /\ published' = published
          /\ Len(wire') <= Len(wire)]_vars

C18_Witness ==
    /\ ~isCleanedUp
    /\ Len(sockets) >= 2
    /\ sockets[1] = "closed"
    /\ sockets[2] = "open"
    /\ activeCalls # <<>>

\* C19 (as claimed): a mounted client is never left for good without an open
\* connection, a connection attempt or a pending reconnect timer
HasConnectionOrTimer ==
    \/ \E i \in 1..Len(sockets) : sockets[i] \in {"connecting", "open"}
    \/ reconnectTimers # {}

C19_AlwaysReconnects_Original ==
    []<>((mounted /\ ~isCleanedUp) => HasConnectionOrTimer)

\* C19 (amended): while mounted, every closed socket is followed by a pending
\* reconnect timer or a new connection attempt, so a client whose first
\* connect() created a socket always has a connection, an attempt or a timer;
\* when the WebSocket constructor throws nothing is scheduled
C19_AlwaysReconnects ==
    ~isCleanedUp =>
        /\ \A i \in 1..Len(sockets) :
               sockets[i] = "closed" => (i \in reconnectTimers \/ Len(sockets) > i)
        /\ (mounted /\ sockets # <<>>) => HasConnectionOrTimer
        /\ (mounted /\ sockets = <<>>) => reconnectTimers = {}

C19_Witness ==
    /\ ~isCleanedUp
    /\ Len(sockets) = 3
    /\ sockets[1] = "closed"
    /\ sockets[2] = "closed"
    /\ sockets[3] = "connecting"

\* C20: a broadcast event is handed to the handler at most once; an event
\* published while the client was not connected is never handed to it, and
\* ActiveCalls / RecentResults hold only what handled events put there
C20_AtMostOnceNoBacklog ==
    /\ \A i \in 1..Len(published) :
           /\ published[i].handled <= 1
           /\ ~published[i].sent => published[i].handled = 0
    /\ \A c \in Ids(activeCalls) :
           \E i \in 1..Len(published) :
               /\ published[i].handled > 0
               /\ published[i].msg = [type |-> "call_started", call_id |-> c]
    /\ Len(recentResults) = Len(HandledResults)

C20_Witness ==
    /\ Len(sockets) >= 2
    /\ sockets[2] = "open"
    /\ wire = <<>>
    /\ Len(published) = 2
    /\ published[1].msg = [type |-> "call_started", call_id |-> "c1"]
    /\ ~published[1].sent
    /\ published[2].handled = 1
    /\ "c1" \notin Ids(activeCalls)

\* C21: a call whose call_started has been handled stays in ActiveCalls as
\* long as no terminal event for its call_id has been handled, whatever else
\* is handled and however often the channel closes and reconnects
HandledOf(c, types) ==
    \E i \in 1..Len(published) :
        /\ published[i].handled > 0
        /\ published[i].msg.call_id = c
        /\ published[i].msg.type \in types

C21_ActiveUntilTerminal ==
    \A c \in CallIds :
        (HandledOf(c, {"call_started"}) /\ ~HandledOf(c, Terminal)) =>
            c \in Ids(activeCalls)

C21_Witness ==
    /\ Len(published) = 2
    /\ published[1].msg = [type |-> "call_started", call_id |-> "c1"]
    /\ published[1].handled = 1
    /\ published[2].msg = [type |-> "call_ended", call_id |-> "c1"]
    /\ ~published[2].sent
    /\ Len(sockets) = 2
    /\ sockets[2] = "open"
    /\ "c1" \in Ids(activeCalls)

\* C22: from the empty state, handling call_started, call_result (cx_score 9)
\* and call_ended of one call leaves ActiveCalls empty and RecentResults with
\* exactly one entry, holding that call_id, cx_score 9 and the disposition and
\* summary received
Scenario2Handled(c) ==
    /\ Len(published) = 3
    /\ \A i \in 1..3 : published[i].handled = 1
    /\ published[1].msg = ScenarioStarted(c)
    /\ published[2].msg = ScenarioResult(c)
    /\ published[3].msg = ScenarioEnded(c)

C22_Scenario2 ==
    \A c \in CallIds :
        Scenario2Handled(c) =>
            /\ activeCalls = <<>>
            /\ Len(recentResults) = 1
            /\ recentResults[1].call_id = c
            /\ recentResults[1].cx_score = 9
            /\ recentResults[1].disposition = ScenarioResult(c).disposition
            /\ recentResults[1].summary = ScenarioResult(c).summary

C22_Witness == Scenario2Handled("c2") /\ wire = <<>>

\* C30: RecentResults has at most one entry per call_id
C30_OneResultPerCall == Cardinality(Ids(recentResults)) = Len(recentResults)

\* C25: every save_call_result invocation gets exactly one tool response, sent
\* before the hangup is scheduled: no session ends with an invocation still
\* unanswered, and no hangup timer exists before a response was sent
C25_ToolCallAcknowledged ==
    /\ toolResponses = Cardinality({k \in 1..Len(toolPc) : toolPc[k] = "done"})
    /\ timers > 0 => toolResponses > 0
    /\ terminated => \A k \in 1..Len(toolPc) : toolPc[k] # "AwaitResultPost"

\* C28: VoxEngine.terminate() is called only after the POST of a terminal
\* event (call_ended or call_error) has been made and has completed
C28_TerminalPostBeforeTerminate ==
    terminated =>
        \E i \in 1..Len(posts) : posts[i].type \in Terminal /\ ~InFlight(i)

C28_Witness ==
    /\ terminated
    /\ webhookLog = {"neterror"}
    /\ received = <<>>
    /\ Count("call_ended") = 1

C23_Ping ==
    /\ [][pings' # pings => (pingInterval /\ WsOpen)]_vars
    /\ (WsOpen /\ ~isCleanedUp) ~> (pingInterval \/ ~WsOpen \/ isCleanedUp)
    /\ \A n \in 0..(MaxPings - 1) :
           (WsOpen /\ pingInterval /\ pings = n) ~>
               (pings > n \/ ~WsOpen \/ ~pingInterval)
    /\ (~WsOpen /\ pingInterval) ~> (~pingInterval \/ WsOpen)

C23_Witness ==
    /\ Len(sockets) = 2
    /\ sockets[2] = "open"
    /\ pingInterval
    /\ pings = MaxPings

\* C26: ingest is idempotent per (call_id, event_type): the registry never
\* holds two entries for a call_id, it holds none for a call_id whose terminal
\* event has been processed, and a repeated envelope, a call_started of a
\* known session and a call_ended of a terminal session change nothing
IngestStep == Len(ingested') = Len(ingested) + 1

C26_IngestIdempotent ==
    /\ [](/\ Cardinality(RegistryIds) = Len(registry)
          /\ \A c \in CallIds : sessions[c] = "terminal" => c \notin RegistryIds
          /\ (ingested # <<>> /\ ingested[Len(ingested)].type \in Terminal) =>
                 ingested[Len(ingested)].call_id \notin RegistryIds)
    /\ [][IngestStep =>
            LET e == ingested'[Len(ingested')] IN
            (\/ ingested # <<>> /\ ingested[Len(ingested)] = e
             \/ e.type = "call_started" /\ sessions[e.call_id] # "absent"
             \/ e.type = "call_ended" /\ sessions[e.call_id] = "terminal") =>
                UNCHANGED <<registry, sessions, results, broadcasts>>]_vars

C26_Witness ==
    /\ Len(ingested) = 3
    /\ ingested[1] = [type |-> "call_started", call_id |-> "c1"]
    /\ ingested[2] = ingested[1]
    /\ ingested[3] = [type |-> "call_started", call_id |-> "c2"]
    /\ registry = <<"c1", "c2">>
    /\ broadcasts = 2

\* C27: a call_result whose cx_score is outside 1..10 or whose disposition is
\* outside the campaign enum changes neither store nor registry and is not
\* broadcast; no such value is ever stored
C27_IngestRejectsInvalid ==
    /\ [](\A c \in CallIds :
              \/ results[c] = NoResult
              \/ /\ results[c].cx_score \in 1..10
                 /\ results[c].disposition \in Dispositions)
    /\ [][IngestStep =>
            LET e == ingested'[Len(ingested')] IN
            (/\ e.type = "call_result"
             /\ (e.cx_score \notin 1..10 \/ e.disposition \notin Dispositions)) =>
                UNCHANGED <<registry, sessions, results, broadcasts>>]_vars

C27_Witness ==
    /\ Len(ingested) = 2
    /\ ingested[1] = [type |-> "call_started", call_id |-> "c1"]
    /\ ingested[2].type = "call_result"
    /\ ingested[2].call_id = "c1"
    /\ ingested[2].cx_score = 11
    /\ sessions["c1"] = "active"
    /\ results["c1"] = NoResult
    /\ broadcasts = 1

\* C31: no tool response is sent on a closed AI-engine client, and no tool
\* response, hangup or hangup timer is issued once the session has terminated
C31_NoUseAfterClose ==
    [][/\ toolResponses' # toolResponses => (geminiClient = "open" /\ ~terminated)
       /\ hangupCalls' # hangupCalls => ~terminated
       /\ timers' > timers => ~terminated]_vars

C31_Witness ==
    /\ terminated
    /\ geminiClient = "closed"
    /\ raised["Disconnected"] = "Listening"
    /\ \E k \in 1..Len(toolPc) : toolPc[k] = "AwaitResultPost"
    /\ toolResponses = 0
    /\ hangupCalls = 0

\* C32: every tool response sent for save_call_result reports success = true,
\* whether its call_result POST succeeded, returned an error status or failed
\* on the network
C32_AckIndependentOfDelivery ==
    /\ \A a \in toolAcks : a.response.success = TRUE
    /\ toolResponses > 0 => toolAcks # {}

C32_Witness ==
    /\ toolResponses = 2
    /\ {a.outcome : a \in toolAcks} = {"non2xx", "neterror"}
    /\ Count("call_result") = 2

\* ------------------------------------------------------------------ C34
\* the sockets that are connecting or open
Live == {i \in 1..Len(sockets) : sockets[i] \in {"connecting", "open"}}

\* number of times the handler was called
Handled == [i \in 1..Len(published) |-> published[i].handled]

\* C34: after the hook's cleanup no reconnect timer is pending, no
\* connection is created and no message reaches the handler, in either
\* copy of the hook
C34_QuietAfterCleanup ==
    /\ [](isCleanedUp => reconnectTimers = {})
    /\ [][isCleanedUp =>
            /\ Len(sockets') = Len(sockets)
            /\ \A i \in 1..Len(published) : published'[i].handled = published[i].handled
            /\ lastMessage' = lastMessage]_vars

\* the hook with the flag is quiet after cleanup
C34_GuardedQuiet ==
    /\ [](hookGuarded /\ isCleanedUp => reconnectTimers = {})
    /\ [][hookGuarded /\ isCleanedUp =>
            /\ Len(sockets') = Len(sockets)
            /\ \A i \in 1..Len(published) : published'[i].handled = published[i].handled
            /\ lastMessage' = lastMessage]_vars

\* the hook without the flag connects again after cleanup
C34_Reconnected ==
    /\ ~hookGuarded
    /\ isCleanedUp
    /\ Len(sockets) = 2
    /\ sockets[1] = "closed"
    /\ sockets[2] = "open"

\* ------------------------------------------------------------------ C35
\* C35: while the hook is mounted at most one connection is connecting or
\* open and at most one reconnect timer is pending, a connection is created
\* only when every earlier one has closed, and no event reaches the handler
\* twice
C35_OneConnection ==
    /\ [](~isCleanedUp =>
            /\ Cardinality(Live) <= 1
            /\ Cardinality(reconnectTimers) <= 1
            /\ (Live # {} => reconnectTimers = {})
            /\ \A i \in 1..Len(published) : published[i].handled <= 1)
    /\ [][(~isCleanedUp /\ Len(sockets') > Len(sockets)) =>
            \A i \in 1..Len(sockets) : sockets[i] = "closed"]_vars

C35_Witness ==
    /\ ~isCleanedUp
    /\ ~hookGuarded
    /\ Len(sockets) = 2
    /\ sockets[1] = "closed"
    /\ sockets[2] = "open"
    /\ reconnectTimers = {}
    /\ Len(published) = 2
    /\ published[1].handled = 1
    /\ published[2].handled = 1

\* ------------------------------------------------------------------ C36
\* onmessage takes the frame at the head of the wire
Taken == wire # <<>> /\ wire' = Tail(wire)

TakenMsg == published[Head(wire)].msg

\* an unparseable frame came before frame i
GarbageBefore(i) == \E j \in 1..(i - 1) : published[j].msg.type = "unparseable"

\* C36: a frame that is not JSON changes neither ActiveCalls, RecentResults,
\* lastMessage nor the connection state and leaves the connection open; the
\* frames that follow it are handled
C36_GarbageDropped ==
    [][Taken =>
         /\ TakenMsg.type = "unparseable" =>
               /\ UNCHANGED <<activeCalls, recentResults, lastMessage, isConnected,
                              sockets, reconnectTimers>>
               /\ published' = published
         /\ (TakenMsg.type # "unparseable" /\ GarbageBefore(Head(wire))) =>
               /\ lastMessage' = TakenMsg
               /\ published'[Head(wire)].handled = published[Head(wire)].handled + 1
               /\ TakenMsg.type = "call_started" =>
                     Len(activeCalls') = Len(activeCalls) + 1]_vars

C36_Witness ==
    /\ Len(published) = 2
    /\ published[1].msg.type = "unparseable"
    /\ published[1].sent
    /\ published[1].handled = 0
    /\ published[2].msg = [type |-> "call_started", call_id |-> "c1"]
    /\ published[2].handled = 1
    /\ wire = <<>>
    /\ isConnected
    /\ sockets = <<"open">>
    /\ Ids(activeCalls) = {"c1"}
    /\ lastMessage = published[2].msg

\* ------------------------------------------------------------------ C37
\* the entries of the calls other than c, in order
Others(calls, c) == SelectSeq(calls, LAMBDA x : x.call_id # c)

\* C37: handling call_result leaves ActiveCalls alone, handling call_started
\* or call_ended leaves RecentResults and the ActiveCalls entries of the
\* other calls alone, and any other frame leaves both alone
C37_IndependentViews ==
    [][Taken =>
         /\ TakenMsg.type = "call_result" => activeCalls' = activeCalls
         /\ TakenMsg.type \in {"call_started", "call_ended"} =>
               /\ recentResults' = recentResults
               /\ Others(activeCalls', TakenMsg.call_id) =
                      Others(activeCalls, TakenMsg.call_id)
         /\ TakenMsg.type \notin {"call_started", "call_ended", "call_result"} =>
               /\ activeCalls' = activeCalls
               /\ recentResults' = recentResults]_vars

C37_Witness ==
    /\ Len(published) = 3
    /\ published[1].msg = [type |-> "call_started", call_id |-> "c1"]
    /\ published[2].msg = [type |-> "call_started", call_id |-> "c2"]
    /\ published[3].msg = [type |-> "call_ended", call_id |-> "c1"]
    /\ \A i \in 1..3 : published[i].handled = 1
    /\ Len(activeCalls) = 1
    /\ activeCalls[1].call_id = "c2"
    /\ recentResults = <<>>

\* frames of the other types were handled and changed nothing
C37_OtherTypesHandled ==
    /\ Len(published) = 3
    /\ published[1].msg = [type |-> "call_started", call_id |-> "c1"]
    /\ published[2].msg = Pong
    /\ published[3].msg = [type |-> "call_error", call_id |-> "c1"]
    /\ \A i \in 1..3 : published[i].handled = 1
    /\ Ids(activeCalls) = {"c1"}

\* ------------------------------------------------------------------ C38
\* C38: while the hook is mounted isConnected is true exactly while its
\* current socket is open: it turns true only with a socket's open event, and
\* every close leaves it false, through the reconnect delay and the next
\* connection attempt
C38_IndicatorFollowsSocket ==
    /\ [](~isCleanedUp => (isConnected <=> WsOpen))
    /\ [][~isCleanedUp' =>
            /\ (\E i \in 1..Len(sockets) : sockets[i] # "closed" /\ sockets'[i] = "closed")
                   => ~isConnected'
            /\ (~isConnected /\ isConnected')
                   => \E i \in 1..Len(sockets) :
                          sockets[i] = "connecting" /\ sockets'[i] = "open"]_vars

C38_Witness ==
    /\ ~isCleanedUp
    /\ sockets = <<"closed", "connecting">>
    /\ reconnectTimers = {}
    /\ ~isConnected
    /\ Len(published) > 0
    /\ published[1].handled = 1

====
